---- MODULE Spec2Model ----
(***************************************************************************)
(* Olympic Trip Optimizer (src/app.py): the cost model cost_breakdown, the *)
(* planner tab, the smart-paste amount extraction with its "Apply" button, *)
(* the compare tab and the forecast client forecast_rows.                  *)
(*                                                                         *)
(* Python floats are modelled as exact rationals <<numerator, denominator>>*)
(* in lowest terms with a positive denominator; <<0, 0>> stands for the    *)
(* ZeroDivisionError a float division by zero raises.                      *)
(***************************************************************************)
EXTENDS Integers, Sequences, FiniteSets, TLC

\* ------------------------------------------------------------------ bounds
MaxNights == 3
MaxPeople == 2
MaxScenarios == 2
MaxDays == 2
MaxTextLen == 4

\* --------------------------------------------------------------- rationals
Abs(n) == IF n < 0 THEN -n ELSE n

RECURSIVE GCD(_, _)
GCD(a, b) == IF b = 0 THEN a ELSE GCD(b, a % b)

ZeroDivisionError == <<0, 0>>

IsFault(x) == x[2] = 0

R(n, d) ==
    IF d = 0 THEN ZeroDivisionError
    ELSE LET s == IF d < 0 THEN -1 ELSE 1
             g == GCD(Abs(n), Abs(d))
         IN  <<(s * n) \div g, (s * d) \div g>>

FromInt(n) == <<n, 1>>
Zero == FromInt(0)

RAdd(a, b) == IF IsFault(a) \/ IsFault(b) THEN ZeroDivisionError
              ELSE R(a[1] * b[2] + b[1] * a[2], a[2] * b[2])
RSub(a, b) == IF IsFault(a) \/ IsFault(b) THEN ZeroDivisionError
              ELSE R(a[1] * b[2] - b[1] * a[2], a[2] * b[2])
RMul(a, b) == IF IsFault(a) \/ IsFault(b) THEN ZeroDivisionError
              ELSE R(a[1] * b[1], a[2] * b[2])
RDiv(a, b) == IF IsFault(a) \/ IsFault(b) \/ b[1] = 0 THEN ZeroDivisionError
              ELSE R(a[1] * b[2], a[2] * b[1])
RLt(a, b) == a[1] * b[2] < b[1] * a[2]
RLe(a, b) == a[1] * b[2] <= b[1] * a[2]

\* ------------------------------------------------------------- cost model
FerryRouteMiles == 360
RoadRouteMiles == 420

\* trip_miles: base = 360 if use_ferry else 420; return base + extra
trip_miles(use_ferry, extra) ==
    RAdd(FromInt(IF use_ferry THEN FerryRouteMiles ELSE RoadRouteMiles), extra)

\* line 72: fuel_cost = (miles/mpg) * gas_price if mpg > 0 else 0
fuel_cost_unguarded(miles, mpg, gas_price) == RMul(RDiv(miles, mpg), gas_price)
fuel_cost(miles, mpg, gas_price) ==
    IF RLt(Zero, mpg) THEN RMul(RDiv(miles, mpg), gas_price) ELSE Zero

\* lines 74 and 82: (ferry_total if use_ferry else 0)
ferry_charge_always(use_ferry, ferry_total) == ferry_total
ferry_charge(use_ferry, ferry_total) == IF use_ferry THEN ferry_total ELSE Zero

\* line 74: the sum, left to right, of items = rental_base, rental_fees,
\* fuel_cost, lodging_total, park_fee, and then of the ferry charge
Sum5(items) == RAdd(RAdd(RAdd(RAdd(items[1], items[2]), items[3]), items[4]), items[5])
total_with_input_ferry(items, use_ferry, ferry_total) == RAdd(Sum5(items), ferry_total)
total_cost(items, use_ferry, ferry_total) ==
    RAdd(Sum5(items), IF use_ferry THEN ferry_total ELSE Zero)

\* line 75: per_person = total / people if people else total
per_person_unguarded(total, people) == RDiv(total, FromInt(people))
per_person(total, people) ==
    IF people # 0 THEN RDiv(total, FromInt(people)) ELSE total

\* line 68: days = nights + 1
rental_days_no_extra_day(nights) == nights
rental_days(nights) == nights + 1

cost_breakdown(a) ==
    LET days          == rental_days(a.nights)
        rental_base   == RMul(a.rental_daily, FromInt(days))
        rental_fees   == RMul(rental_base, RDiv(a.rental_fees_pct, FromInt(100)))
        miles         == trip_miles(a.use_ferry, a.extra_miles)
        fuel          == fuel_cost(miles, a.mpg, a.gas_price)
        lodging_total == RAdd(RMul(a.lodging_nightly, FromInt(a.nights)),
                              a.lodging_fees_total)
        total         == total_cost(<<rental_base, rental_fees, fuel, lodging_total,
                                      a.park_fee>>, a.use_ferry, a.ferry_total)
    IN  [rental_base   |-> rental_base,
         rental_fees   |-> rental_fees,
         fuel_cost     |-> fuel,
         lodging_total |-> lodging_total,
         park_fee      |-> a.park_fee,
         ferry_total   |-> ferry_charge(a.use_ferry, a.ferry_total),
         miles         |-> miles,
         total         |-> total,
         per_person    |-> per_person(total, a.people)]

\* The parameters of cost_breakdown, in the order of its signature.
Params == <<"nights", "people", "use_ferry", "extra_miles", "rental_daily",
            "rental_fees_pct", "lodging_nightly", "lodging_fees_total",
            "gas_price", "mpg", "park_fee", "ferry_total">>

\* The sidebar's default values (lines 95-111), which are also the spec's
\* concrete scenario.
Defaults ==
    [nights |-> 2, people |-> 2, use_ferry |-> TRUE, extra_miles |-> FromInt(40),
     rental_daily |-> FromInt(55), rental_fees_pct |-> FromInt(22),
     lodging_nightly |-> FromInt(150), lodging_fees_total |-> FromInt(60),
     gas_price |-> R(9, 2), mpg |-> FromInt(30), park_fee |-> FromInt(30),
     ferry_total |-> FromInt(50)]

\* Argument values tried for each parameter of cost_breakdown when it is
\* exercised on its own: the defaults and the boundary zeros.
ArgValues(p) ==
    CASE p = "nights"             -> 2 .. MaxNights
      [] p = "people"             -> 0 .. MaxPeople
      [] p = "use_ferry"          -> BOOLEAN
      [] p = "extra_miles"        -> {Zero, FromInt(40)}
      [] p = "rental_daily"       -> {Zero, FromInt(55)}
      [] p = "rental_fees_pct"    -> {Zero, FromInt(22)}
      [] p = "lodging_nightly"    -> {Zero, FromInt(150)}
      [] p = "lodging_fees_total" -> {Zero, FromInt(60)}
      [] p = "gas_price"          -> {Zero, R(9, 2)}
      [] p = "mpg"                -> {Zero, FromInt(30)}
      [] p = "park_fee"           -> {Zero, FromInt(30)}
      [] p = "ferry_total"        -> {Zero, FromInt(50)}

\* Truncation toward zero (int(x)) and round(x, 0): Python rounds a float to
\* the nearest whole number, ties to the even one.
Floor(x) == IF IsFault(x) THEN 0 ELSE x[1] \div x[2]
int(x) == IF x[1] >= 0 THEN Floor(x) ELSE -((-x[1]) \div x[2])
round(x) ==
    LET f    == Floor(x)
        frac == RSub(x, FromInt(f))
    IN  IF IsFault(x) THEN ZeroDivisionError
        ELSE IF RLt(frac, R(1, 2)) THEN FromInt(f)
        ELSE IF RLt(R(1, 2), frac) THEN FromInt(f + 1)
        ELSE IF f % 2 = 0 THEN FromInt(f) ELSE FromInt(f + 1)

\* ------------------------------------------------------------ planner tab
\* Values a user can give each sidebar widget; every one lies inside the
\* widget's min_value .. max_value (lines 95-111).
MinMpg == 5
WidgetValues(p) ==
    CASE p = "nights"             -> 2 .. MaxNights
      [] p = "people"             -> 1 .. MaxPeople
      [] p = "use_ferry"          -> BOOLEAN
      [] p = "extra_miles"        -> {FromInt(40)}
      [] p = "rental_daily"       -> {FromInt(55)}
      [] p = "rental_fees_pct"    -> {FromInt(22)}
      [] p = "lodging_nightly"    -> {FromInt(150)}
      [] p = "lodging_fees_total" -> {FromInt(60)}
      [] p = "gas_price"          -> {Zero, R(9, 2)}
      [] p = "mpg"                -> {FromInt(MinMpg), FromInt(30)}
      [] p = "park_fee"           -> {FromInt(30)}
      [] p = "ferry_total"        -> {FromInt(50)}

\* lines 121-125 and 135-137: the miles and fuel metrics, then the breakdown.
\* The two metrics divide by mpg without a guard.
Planner(sb) ==
    LET miles == trip_miles(sb.use_ferry, sb.extra_miles)
    IN  [miles       |-> miles,
         fuel_needed |-> RDiv(miles, sb.mpg),
         fuel_cost   |-> RMul(RDiv(miles, sb.mpg), sb.gas_price),
         b           |-> cost_breakdown(sb)]

\* ------------------------------------------------------------ compare tab
\* lines 207-214: the two scenarios the session starts with. A start date is
\* the number of days after dd.replace(day=min(28, dd.day)).
MidWeek ==
    [label |-> "Mid-week Sep (Tue-Thu)", start |-> 14, nights |-> 2,
     avis_daily |-> FromInt(55), avis_fees_pct |-> FromInt(22),
     lodging_nightly |-> FromInt(150), lodging_fees |-> FromInt(60),
     use_ferry |-> TRUE, ferry_total |-> FromInt(50), extra_miles |-> FromInt(40),
     gas |-> R(9, 2), mpg |-> FromInt(30), park_fee |-> FromInt(30)]
Weekend ==
    [label |-> "Weekend Sep (Fri-Sun)", start |-> 16, nights |-> 2,
     avis_daily |-> FromInt(65), avis_fees_pct |-> FromInt(22),
     lodging_nightly |-> FromInt(185), lodging_fees |-> FromInt(60),
     use_ferry |-> FALSE, ferry_total |-> Zero, extra_miles |-> FromInt(40),
     gas |-> R(23, 5), mpg |-> FromInt(30), park_fee |-> FromInt(30)]

\* Rows a user can type into the data editor: the two initial ones, the first
\* with a ferry quote 20 cents lower, and the first with the MPG cell set to 0
\* (the editor puts no limits on that column).
ScenarioInputs ==
    {MidWeek, Weekend,
     [MidWeek EXCEPT !.label = "Mid-week, ferry 49.80", !.ferry_total = R(249, 5)],
     [MidWeek EXCEPT !.label = "Mid-week, MPG 0", !.mpg = Zero]}

ComparePeople == 2

\* lines 232-236: the arguments the loop passes for one row
ScenarioArgs(r) ==
    [nights |-> r.nights, people |-> ComparePeople, use_ferry |-> r.use_ferry,
     extra_miles |-> r.extra_miles, rental_daily |-> r.avis_daily,
     rental_fees_pct |-> r.avis_fees_pct, lodging_nightly |-> r.lodging_nightly,
     lodging_fees_total |-> r.lodging_fees, gas_price |-> r.gas, mpg |-> r.mpg,
     park_fee |-> r.park_fee, ferry_total |-> r.ferry_total]

\* lines 229-236: b, for each row of df in order
Breakdowns(df) == [i \in 1 .. Len(df) |-> cost_breakdown(ScenarioArgs(df[i]))]

\* lines 237-243: the result row built from scenario r and its breakdown b;
\* index is the row's position, which the data frame keeps through the sort.
ResultRow(i, r, b) ==
    [index      |-> i,
     label      |-> r.label,
     dates      |-> <<r.start, r.start + r.nights>>,
     miles      |-> int(b.miles),
     total      |-> round(b.total),
     per_person |-> round(b.per_person)]

Results(df) ==
    LET bs == Breakdowns(df)
    IN  [i \in 1 .. Len(df) |-> ResultRow(i, df[i], bs[i])]

\* line 245: sort_values("total"). The default sort kind is quicksort, which
\* is not stable: rows are in ascending order of the "total" column, and rows
\* with equal values of it may come out in any order.
sort_values(results) ==
    {[i \in 1 .. Len(results) |-> results[p[i]]] :
        p \in {q \in Permutations(1 .. Len(results)) :
                 \A i, j \in 1 .. Len(results) :
                    i < j => RLe(results[q[i]].total, results[q[j]].total)}}

\* lines 244-246: the table shown, none for no scenarios
CompareTables(df) == IF Len(df) = 0 THEN {<<>>} ELSE sort_values(Results(df))

\* -------------------------------------------------------- forecast client
\* What requests.get and r.json() can give forecast_rows. status: the request
\* raised ("exception": connection error, timeout), the body is not JSON
\* ("not_json"), is JSON but not an object ("not_object"), or is an object
\* ("ok"). daily and the four lists are each missing, null, or present.
Missing == [tag |-> "missing", val |-> <<>>]
Null == [tag |-> "null", val |-> <<>>]
List(s) == [tag |-> "list", val |-> s]

NoBody(status) ==
    [status |-> status, daily |-> "missing",
     time |-> Missing, tmin |-> Missing, tmax |-> Missing, precip |-> Missing]

\* The values of day i in each list; they differ by day and by list.
DayValue(k, i) ==
    CASE k = "time"   -> 20260100 + i
      [] k = "tmin"   -> i
      [] k = "tmax"   -> 10 + i
      [] k = "precip" -> 10 * i

Field(k) ==
    {Missing, Null} \cup {List([i \in 1 .. n |-> DayValue(k, i)]) : n \in 0 .. MaxDays}

Responses ==
    {NoBody("exception"), NoBody("not_json"), NoBody("not_object"), NoBody("ok"),
     [NoBody("ok") EXCEPT !.daily = "null"]}
    \cup [status : {"ok"}, daily : {"object"}, time : Field("time"),
          tmin : Field("tmin"), tmax : Field("tmax"), precip : Field("precip")]

Min(a, b) == IF a < b THEN a ELSE b

\* d.get(k, []): the default for a missing key, the value otherwise
get(f) == IF f.tag = "missing" THEN List(<<>>) ELSE f

\* lines 23-34, the body of the try: the rows, or the exception raised
try_body(resp) ==
    IF resp.status = "exception" THEN [rows |-> <<>>, raised |-> "RequestException"]
    ELSE IF resp.status = "not_json" THEN [rows |-> <<>>, raised |-> "JSONDecodeError"]
    ELSE IF resp.status = "not_object" THEN [rows |-> <<>>, raised |-> "AttributeError"]
    ELSE IF resp.daily = "null" THEN [rows |-> <<>>, raised |-> "AttributeError"]
    ELSE LET t  == get(resp.time)
             lo == get(resp.tmin)
             hi == get(resp.tmax)
             p  == get(resp.precip)
         IN  IF \E l \in {t, lo, hi, p} : l.tag = "null"
             THEN [rows |-> <<>>, raised |-> "TypeError"]
             ELSE LET n == Min(Min(Len(t.val), Len(lo.val)),
                               Min(Len(hi.val), Len(p.val)))
                  IN  [rows   |-> [i \in 1 .. n |->
                                     [date |-> t.val[i], min_C |-> lo.val[i],
                                      max_C |-> hi.val[i], precip_pct |-> p.val[i]]],
                       raised |-> "none"]

\* lines 22, 35-36: except Exception: return []
forecast_rows_except_request_only(resp) ==
    LET t == try_body(resp)
    IN  IF t.raised = "RequestException" THEN [rows |-> <<>>, raised |-> "none"] ELSE t
forecast_rows(resp) ==
    LET t == try_body(resp)
    IN  IF t.raised # "none" THEN [rows |-> <<>>, raised |-> "none"] ELSE t

\* ------------------------------------------------------------ smart paste
\* A text is a sequence of one-character strings.
Digits == {"0", "1", "2", "3", "4", "5", "6", "7", "8", "9"}
Whitespace == {" ", "\t", "\n"}

DigitValue(c) ==
    CASE c = "0" -> 0 [] c = "1" -> 1 [] c = "2" -> 2 [] c = "3" -> 3 [] c = "4" -> 4
      [] c = "5" -> 5 [] c = "6" -> 6 [] c = "7" -> 7 [] c = "8" -> 8 [] c = "9" -> 9

\* The character at position i, "" past the end.
At(t, i) == IF i \in 1 .. Len(t) THEN t[i] ELSE ""

\* \s* from position i: the position after the whitespace
RECURSIVE SkipSpace(_, _)
SkipSpace(t, i) == IF At(t, i) \in Whitespace THEN SkipSpace(t, i + 1) ELSE i

\* How many digits stand at position i, counting no more than most.
RECURSIVE CountDigits(_, _, _)
CountDigits(t, i, most) ==
    IF most > 0 /\ At(t, i) \in Digits THEN 1 + CountDigits(t, i + 1, most - 1) ELSE 0

\* (?:,[0-9]{3})* from position e: the position after the last full group
RECURSIVE Thousands(_, _)
Thousands(t, e) ==
    IF At(t, e) = "," /\ CountDigits(t, e + 1, 3) = 3 THEN Thousands(t, e + 4) ELSE e

\* (?:\.[0-9]{1,2})? from position e
Decimals(t, e) ==
    IF At(t, e) = "." /\ At(t, e + 1) \in Digits
    THEN e + 1 + CountDigits(t, e + 1, 2)
    ELSE e

\* The two alternatives of the group, from position j: the position after the
\* match, 0 for no match. Every part after the leading digits is optional and
\* nothing follows the group, so the greedy match is the one the engine takes.
GroupedAmount(t, j) ==
    LET k == CountDigits(t, j, 3)
    IN  IF k = 0 THEN 0 ELSE Decimals(t, Thousands(t, j + k))
PlainAmount(t, j) ==
    LET k == CountDigits(t, j, Len(t))
    IN  IF k = 0 THEN 0 ELSE Decimals(t, j + k)

\* The pattern of line 157 tried at position i: the span of group 1, to = 0
\* for no match. The first alternative is tried first.
MatchAt(t, i) ==
    IF At(t, i) # "$" THEN [from |-> 0, to |-> 0]
    ELSE LET j  == SkipSpace(t, i + 1)
             e1 == GroupedAmount(t, j)
         IN  [from |-> j, to |-> IF e1 # 0 THEN e1 ELSE PlainAmount(t, j)]

\* re.findall from position i: group 1 of each match, left to right, the
\* search resuming where the last match ended
RECURSIVE findall(_, _)
findall(t, i) ==
    IF i > Len(t) THEN <<>>
    ELSE LET m == MatchAt(t, i)
         IN  IF m.to = 0 THEN findall(t, i + 1)
             ELSE <<SubSeq(t, m.from, m.to - 1)>> \o findall(t, m.to)

\* a.replace(",", "")
IsNotComma(c) == c # ","
replace_commas(a) == SelectSeq(a, IsNotComma)

RECURSIVE Number(_)
Number(ds) ==
    IF ds = <<>> THEN 0
    ELSE 10 * Number(SubSeq(ds, 1, Len(ds) - 1)) + DigitValue(ds[Len(ds)])

RECURSIVE Pow10(_)
Pow10(n) == IF n = 0 THEN 1 ELSE 10 * Pow10(n - 1)

DotAt(a) == IF \E i \in 1 .. Len(a) : a[i] = "."
            THEN CHOOSE i \in 1 .. Len(a) : a[i] = "." /\ \A j \in 1 .. i - 1 : a[j] # "."
            ELSE 0

\* float(a): whether it parses (digits, then optionally a point and digits),
\* and its value
float_parses(a) ==
    LET d    == DotAt(a)
        ip   == IF d = 0 THEN a ELSE SubSeq(a, 1, d - 1)
        fp   == IF d = 0 THEN <<>> ELSE SubSeq(a, d + 1, Len(a))
    IN  /\ Len(ip) + Len(fp) > 0
        /\ \A i \in 1 .. Len(ip) : ip[i] \in Digits
        /\ \A i \in 1 .. Len(fp) : fp[i] \in Digits
float(a) ==
    LET d    == DotAt(a)
        ip   == IF d = 0 THEN a ELSE SubSeq(a, 1, d - 1)
        fp   == IF d = 0 THEN <<>> ELSE SubSeq(a, d + 1, Len(a))
    IN  R(Number(ip) * Pow10(Len(fp)) + Number(fp), Pow10(Len(fp)))

Contains(vs, v) == \E i \in 1 .. Len(vs) : vs[i] = v

\* lines 158-165: the loop over amounts, from vals = acc
RECURSIVE unique_values_keeping_repeats(_, _)
unique_values_keeping_repeats(amounts, acc) ==
    IF amounts = <<>> THEN acc
    ELSE LET a == replace_commas(Head(amounts))
         IN  IF float_parses(a)
             THEN unique_values_keeping_repeats(Tail(amounts), Append(acc, float(a)))
             ELSE unique_values_keeping_repeats(Tail(amounts), acc)
RECURSIVE unique_values(_, _)
unique_values(amounts, acc) ==
    IF amounts = <<>> THEN acc
    ELSE LET a == replace_commas(Head(amounts))
         IN  IF float_parses(a)
             THEN LET v == float(a)
                  IN  unique_values(Tail(amounts),
                                    IF Contains(acc, v) THEN acc ELSE Append(acc, v))
             ELSE unique_values(Tail(amounts), acc)

\* sorted(vals, reverse=True)
RECURSIVE InsertDescending(_, _)
InsertDescending(s, v) ==
    IF s = <<>> THEN <<v>>
    ELSE IF RLt(Head(s), v) THEN <<v>> \o s
    ELSE <<Head(s)>> \o InsertDescending(Tail(s), v)
RECURSIVE sorted_reverse(_)
sorted_reverse(vs) ==
    IF vs = <<>> THEN <<>>
    ELSE InsertDescending(sorted_reverse(SubSeq(vs, 1, Len(vs) - 1)), vs[Len(vs)])

KeepFirst == 10

\* lines 158-166: the detected amounts, from the tokens findall returned
detected_amounts(amounts) ==
    LET vs == sorted_reverse(unique_values(amounts, <<>>))
    IN  SubSeq(vs, 1, IF Len(vs) < KeepFirst THEN Len(vs) ELSE KeepFirst)

\* The decimal digits of n, and "$n " for each n of a list, as texts.
RECURSIVE DecimalText(_)
DecimalText(n) ==
    LET c == CHOOSE d \in Digits : DigitValue(d) = n % 10
    IN  IF n < 10 THEN <<c>> ELSE Append(DecimalText(n \div 10), c)
RECURSIVE PriceList(_)
PriceList(ns) ==
    IF ns = <<>> THEN <<>> ELSE <<"$">> \o DecimalText(Head(ns)) \o <<" ">> \o PriceList(Tail(ns))

\* Characters typed one at a time, and whole texts pasted at once.
Typed == {"$", "0", "1", ".", ","}
QuoteSamples ==
    {<<"$", "1", ",", "2", "3", "4", ".", "5", "6", " ", "t", "o", "t", "a", "l">>,
     <<"$", "1", "2", "3", "4">>,
     <<"$", " ", "1", "2", ".", "5", " ", "o", "r", " ", "$", "1", "2", ".", "5", "0">>,
     <<"U", "S", "D", " ", "4", "5", ".">>,
     <<"$", "1", "5", "0", "/", "n", "i", "g", "h", "t", ",", " ", "$", "6", "0", " ", "f", "e", "e", ",", " ", "$", "0", " ", "f", "e", "r", "r", "y">>}
PasteSamples ==
    QuoteSamples \cup {PriceList(<<3, 11, 7, 1, 12, 5, 9, 2, 10, 4, 8, 6, 7>>)}

\* The selectboxes of lines 172-178. None is the "nothing chosen" option of
\* the lodging and Avis pickers; the other two start at 0.0.
None == <<0, -1>>
NoPicks == [lodging |-> None, lodge_fees |-> Zero, avis_daily |-> None, ferry |-> Zero]
Pickers == <<"lodging", "lodge_fees", "avis_daily", "ferry">>

\* The keys of the sidebar widgets (lines 104-111), all instantiated before
\* the smart-paste section runs.
WidgetKeys == {"rental_daily", "rental_fees_pct", "lodging_nightly",
               "lodging_fees_total", "gas_price", "mpg", "park_fee", "ferry_total"}

\* st.session_state[key] = value, on s = [state, raised]. Streamlit refuses
\* the assignment for the key of a widget that this run of the script has
\* already instantiated and raises StreamlitAPIException; a statement after a
\* raised exception is not executed.
setitem(s, key, value) ==
    IF s.raised # "none" THEN s
    ELSE IF key \in WidgetKeys THEN [s EXCEPT !.raised = "StreamlitAPIException"]
    ELSE [s EXCEPT !.state[key] = value]

\* lines 181-186: the body of the button's if
apply_selections(state, pk) ==
    LET s0 == [state |-> state, raised |-> "none"]
        s1 == IF pk.lodging # None
              THEN setitem(s0, "lodging_nightly",
                           IF pk.lodging # Zero THEN pk.lodging ELSE state.lodging_nightly)
              ELSE s0
        s2 == setitem(s1, "lodging_fees_total", pk.lodge_fees)
        s3 == IF pk.avis_daily # None
              THEN setitem(s2, "rental_daily",
                           IF pk.avis_daily # Zero THEN pk.avis_daily ELSE state.rental_daily)
              ELSE s2
    IN  setitem(s3, "ferry_total", pk.ferry)

VARIABLES
    called,     \* the latest call of cost_breakdown on its own: [args, ret]
    sidebar,    \* the sidebar widgets' values, by widget key
    planner,    \* the planner tab's metrics and breakdown
    scenarios,  \* st.session_state.scenarios: the rows of the data editor
    breakdowns, \* the compare loop's b, per row
    out,        \* the comparison table shown
    response,   \* what the forecast request of the latest run met
    weather,    \* what forecast_rows gave the planner: [rows, raised]
    paste,      \* the text area's content
    amounts,    \* the tokens re.findall returned for it
    vals,       \* the detected amounts
    picks,      \* the four selectboxes' values
    applied,    \* whether the Apply button started the latest run
    raised      \* the exception that ended the latest run, "none" for none

app == <<sidebar, planner, scenarios, breakdowns, out>>
forecast == <<response, weather>>
smart_paste == <<paste, amounts, vals, picks, applied, raised>>
vars == <<called, app, forecast, smart_paste>>

Invoke(a) == [args |-> a, ret |-> cost_breakdown(a)]

\* The session after the first run of the script, in which the forecast
\* request failed.
Init ==
    /\ called = Invoke(Defaults)
    /\ sidebar = Defaults
    /\ planner = Planner(Defaults)
    /\ scenarios = <<MidWeek, Weekend>>
    /\ breakdowns = Breakdowns(scenarios)
    /\ out \in CompareTables(scenarios)
    /\ response = NoBody("exception")
    /\ weather = forecast_rows(response)
    /\ paste = <<>>
    /\ amounts = <<>>
    /\ vals = <<>>
    /\ picks = NoPicks
    /\ applied = FALSE
    /\ raised = "none"

\* ------------------------------------------------- cost_breakdown on its own
\* cost_breakdown is called again with one argument changed.
Call(p, v) ==
    /\ v # called.args[p]
    /\ called' = Invoke([called.args EXCEPT ![p] = v])
    /\ UNCHANGED <<app, forecast, smart_paste>>

NextCost == \E i \in 1 .. Len(Params) : \E v \in ArgValues(Params[i]) : Call(Params[i], v)

SpecCost == Init /\ [][NextCost]_vars

\* ------------------------------------------------ planner and compare tabs
\* The user changes one sidebar widget; the script reruns.
SetWidget(p, v) ==
    /\ v # sidebar[p]
    /\ sidebar' = [sidebar EXCEPT ![p] = v]
    /\ planner' = Planner(sidebar')
    /\ UNCHANGED <<called, scenarios, breakdowns, out, forecast, smart_paste>>

\* The data editor returns a new frame df; the script reruns on it.
Rerun(df) ==
    /\ scenarios' = df
    /\ breakdowns' = Breakdowns(df)
    /\ out' \in CompareTables(df)
    /\ UNCHANGED <<called, sidebar, planner, forecast, smart_paste>>

AddRow(r) ==
    /\ Len(scenarios) < MaxScenarios
    /\ Rerun(Append(scenarios, r))

DeleteRow(i) ==
    /\ i \in 1 .. Len(scenarios)
    /\ Rerun(SubSeq(scenarios, 1, i - 1) \o SubSeq(scenarios, i + 1, Len(scenarios)))

EditRow(i, r) ==
    /\ i \in 1 .. Len(scenarios)
    /\ r # scenarios[i]
    /\ Rerun([scenarios EXCEPT ![i] = r])

Next ==
    \/ \E i \in 1 .. Len(Params) : \E v \in WidgetValues(Params[i]) : SetWidget(Params[i], v)
    \/ \E r \in ScenarioInputs : AddRow(r)
    \/ \E i \in 1 .. MaxScenarios : DeleteRow(i)
    \/ \E i \in 1 .. MaxScenarios : \E r \in ScenarioInputs : EditRow(i, r)

Spec == Init /\ [][Next]_vars

\* ---------------------------------------------------------------- forecast
\* A run of the script in which the forecast request meets resp (line 128).
Fetch(resp) ==
    /\ response' = resp
    /\ weather' = forecast_rows(resp)
    /\ UNCHANGED <<called, app, smart_paste>>

NextForecast == \E resp \in Responses : Fetch(resp)

SpecForecast == Init /\ [][NextForecast]_vars

\* ------------------------------------------------------------- smart paste
\* The text area's content becomes text; the script reruns, and the pickers,
\* rebuilt for the new amounts, show their first option.
SetPaste(text) ==
    /\ paste' = text
    /\ amounts' = IF text = <<>> THEN <<>> ELSE findall(text, 1)
    /\ vals' = detected_amounts(amounts')
    /\ picks' = NoPicks
    /\ applied' = FALSE
    /\ raised' = "none"
    /\ UNCHANGED <<called, app, forecast>>

Type(c) ==
    /\ Len(paste) < MaxTextLen
    /\ SetPaste(Append(paste, c))

Clear ==
    /\ paste # <<>>
    /\ SetPaste(<<>>)

PasteText(text) ==
    /\ paste # text
    /\ SetPaste(text)

NextPaste ==
    \/ \E c \in Typed : Type(c)
    \/ Clear
    \/ \E text \in PasteSamples : PasteText(text)

SpecPaste == Init /\ [][NextPaste]_vars

\* The user chooses option v of one picker (lines 172-178).
Pick(which, v) ==
    /\ vals # <<>>
    /\ v # picks[which]
    /\ v \in {vals[i] : i \in 1 .. Len(vals)}
             \cup {IF which \in {"lodging", "avis_daily"} THEN None ELSE Zero}
    /\ picks' = [picks EXCEPT ![which] = v]
    /\ applied' = FALSE
    /\ raised' = "none"
    /\ UNCHANGED <<called, app, forecast, paste, amounts, vals>>

\* The user presses "Apply selections to sidebar" (line 180).
Apply ==
    /\ vals # <<>>
    /\ LET s == apply_selections(sidebar, picks)
       IN  /\ sidebar' = s.state
           /\ raised' = s.raised
           /\ planner' = IF s.raised = "none" THEN Planner(s.state) ELSE planner
    /\ applied' = TRUE
    /\ UNCHANGED <<called, scenarios, breakdowns, out, forecast, paste, amounts, vals, picks>>

NextApply ==
    \/ \E text \in QuoteSamples : PasteText(text)
    \/ Clear
    \/ \E i \in 1 .. Len(Pickers) : \E v \in {None} \cup {vals[k] : k \in 1 .. Len(vals)} \cup {Zero} :
          Pick(Pickers[i], v)
    \/ Apply

SpecApply == Init /\ [][NextApply]_vars

\* ================================================================== claims
Sum6(b) ==
    RAdd(RAdd(RAdd(RAdd(RAdd(b.rental_base, b.rental_fees), b.fuel_cost),
                   b.lodging_total), b.park_fee), b.ferry_total)

\* C2: for every input to cost_breakdown the returned total is the sum of the
\* six returned components rental_base, rental_fees, fuel_cost, lodging_total,
\* park_fee and the returned ferry_total.
C2_TotalIsSumOfComponents == called.ret.total = Sum6(called.ret)

C2_Witness ==
    /\ ~called.args.use_ferry
    /\ called.args.ferry_total = FromInt(50)
    /\ called.ret.fuel_cost = FromInt(69)
    /\ called.ret.total = R(6603, 10)

\* C4: with people = 0 cost_breakdown returns per_person = total and raises
\* nothing; with people > 0 it returns per_person = total / people.
C4_PerPerson ==
    /\ ~IsFault(called.ret.per_person)
    /\ called.args.people = 0 => called.ret.per_person = called.ret.total
    /\ called.args.people > 0 =>
          RMul(called.ret.per_person, FromInt(called.args.people)) = called.ret.total

C4_Witness ==
    /\ called.args.people = 0
    /\ called.ret.total = R(7013, 10)
    /\ called.ret.per_person = R(7013, 10)

\* C5: with use_ferry false the returned ferry cost is 0 and a call that
\* differs from the one before it only in ferry_total returns the same
\* breakdown; with use_ferry true the ferry cost is the ferry_total given.
C5_FerryOnlyWhenUsed ==
    /\ [](called.ret.ferry_total =
             IF called.args.use_ferry THEN called.args.ferry_total ELSE Zero)
    /\ [][(/\ ~called.args.use_ferry
           /\ called'.args # called.args
           /\ called'.args =
                 [called.args EXCEPT !.ferry_total = called'.args.ferry_total])
          => called'.ret = called.ret]_vars

C5_Witness ==
    /\ ~called.args.use_ferry
    /\ called.args.ferry_total = FromInt(50)
    /\ called.ret.ferry_total = Zero
    /\ called.ret = cost_breakdown([called.args EXCEPT !.ferry_total = Zero])

NoFerryScenario == [Defaults EXCEPT !.use_ferry = FALSE]

C6_Itemized(b) ==
    /\ b.miles = FromInt(460)
    /\ b.ferry_total = Zero
    /\ b.fuel_cost = FromInt(69)
    /\ b.rental_base = FromInt(165)
    /\ b.rental_fees = R(363, 10)
    /\ b.lodging_total = FromInt(360)
    /\ b.rental_base = cost_breakdown(Defaults).rental_base
    /\ b.rental_fees = cost_breakdown(Defaults).rental_fees
    /\ b.lodging_total = cost_breakdown(Defaults).lodging_total

\* C6 as the spec states it: the concrete scenario with use_ferry false gives
\* miles 460, ferry 0, fuel 69, rental 165 and 36.3, lodging 360 and a total
\* of 710.3.
C6_TotalIs710_3 ==
    called.args = NoFerryScenario =>
        C6_Itemized(called.ret) /\ called.ret.total = R(7103, 10)

\* C6, amended: the same itemized figures, and a total of 660.3, which is the
\* ferry-case total 701.3 less (50 - 9).
C6_TotalIs660_3 ==
    called.args = NoFerryScenario =>
        /\ C6_Itemized(called.ret)
        /\ called.ret.total = R(6603, 10)
        /\ cost_breakdown(Defaults).total = R(7013, 10)
        /\ called.ret.total = RSub(R(7013, 10), FromInt(50 - 9))

C6_Witness == called.args = NoFerryScenario /\ called.ret.total = R(6603, 10)

\* The cost model's breakdown for row k of the comparison table.
ModelOf(k) == breakdowns[out[k].index]

\* C1: the comparison table is in ascending order of each scenario's total as
\* the cost model computes it, and scenarios with equal totals keep the order
\* they had in the input.
C1_AscendingByModelTotalStable ==
    \A i, j \in 1 .. Len(out) :
        i < j =>
            /\ RLe(ModelOf(i).total, ModelOf(j).total)
            /\ ModelOf(i).total = ModelOf(j).total => out[i].index < out[j].index

\* fuel is the fuel cost of miles at mpg and gas_price, as C3 has it.
FuelCostIs(fuel, miles, mpg, gas_price) ==
    /\ ~IsFault(fuel)
    /\ mpg = Zero => fuel = Zero
    /\ RLt(Zero, mpg) => RMul(fuel, mpg) = RMul(miles, gas_price)

\* C3: no fuel figure is a division fault; where mpg is 0 the fuel cost is 0,
\* and where mpg > 0 it is (miles / mpg) * gas_price. This covers the
\* planner's two metrics, its breakdown and every breakdown of the compare loop.
C3_FuelCostDefined ==
    /\ ~IsFault(planner.fuel_needed)
    /\ RLt(Zero, sidebar.mpg) => RMul(planner.fuel_needed, sidebar.mpg) = planner.miles
    /\ FuelCostIs(planner.fuel_cost, planner.miles, sidebar.mpg, sidebar.gas_price)
    /\ FuelCostIs(planner.b.fuel_cost, planner.b.miles, sidebar.mpg, sidebar.gas_price)
    /\ \A i \in 1 .. Len(scenarios) :
          FuelCostIs(breakdowns[i].fuel_cost, breakdowns[i].miles,
                     scenarios[i].mpg, scenarios[i].gas)

C3_Witness ==
    /\ \E i \in 1 .. Len(scenarios) :
          scenarios[i].mpg = Zero /\ breakdowns[i].fuel_cost = Zero
                                  /\ breakdowns[i].total = R(6413, 10)
    /\ sidebar.mpg = FromInt(MinMpg)
    /\ planner.fuel_cost = FromInt(360)

\* C7: the table has one row per scenario, and each row's miles, total and
\* per_person are exactly what the cost model returns for that scenario's
\* parameters and the traveler count entered for the trip (the only traveler
\* count the program holds is the sidebar's); no scenarios give no rows.
C7_RowsAreModelValues ==
    /\ Len(out) = Len(scenarios)
    /\ \A i \in 1 .. Len(scenarios) : \E k \in 1 .. Len(out) : out[k].index = i
    /\ \A k \in 1 .. Len(out) :
          LET m == cost_breakdown([ScenarioArgs(scenarios[out[k].index])
                                     EXCEPT !.people = sidebar.people])
          IN  /\ FromInt(out[k].miles) = m.miles
              /\ out[k].total = m.total
              /\ out[k].per_person = m.per_person

\* The request failed, or the response is not JSON, or lacks the daily object
\* or one of its four lists.
Unusable(resp) ==
    \/ resp.status # "ok"
    \/ resp.daily # "object"
    \/ \E l \in {resp.time, resp.tmin, resp.tmax, resp.precip} : l.tag # "list"

SameIndex(resp, rows) ==
    \A i \in 1 .. Len(rows) :
        /\ rows[i].date = resp.time.val[i]
        /\ rows[i].min_C = resp.tmin.val[i]
        /\ rows[i].max_C = resp.tmax.val[i]
        /\ rows[i].precip_pct = resp.precip.val[i]

\* C8 as stated: forecast_rows raises nothing; an unusable response gives no
\* rows; any other gives one row per day of the response, its four fields
\* taken from the same index of the four lists.
C8_OneRowPerDay ==
    /\ weather.raised = "none"
    /\ Unusable(response) => weather.rows = <<>>
    /\ ~Unusable(response) =>
          /\ Len(weather.rows) = Len(response.time.val)
          /\ SameIndex(response, weather.rows)

\* C8, amended: as above, but the rows stop at the end of the shortest of the
\* four lists (one row per day when the lists are equally long).
C8_RowsUpToShortestList ==
    /\ weather.raised = "none"
    /\ Unusable(response) => weather.rows = <<>>
    /\ ~Unusable(response) =>
          /\ \A l \in {response.time, response.tmin, response.tmax, response.precip} :
                Len(weather.rows) <= Len(l.val)
          /\ \E l \in {response.time, response.tmin, response.tmax, response.precip} :
                Len(weather.rows) = Len(l.val)
          /\ SameIndex(response, weather.rows)

C8_Witness ==
    /\ ~Unusable(response)
    /\ Len(response.time.val) = 2
    /\ Len(response.tmax.val) = 1
    /\ weather.rows = <<[date |-> 20260101, min_C |-> 1, max_C |-> 11, precip_pct |-> 10]>>

\* The amounts the pattern matches in the pasted text.
Matched == {float(replace_commas(amounts[i])) : i \in 1 .. Len(amounts)}
Detected == {vals[i] : i \in 1 .. Len(vals)}

\* C9: the detected amounts hold no value twice, are in descending order, are
\* at most 10, and are the largest distinct amounts matched in the text: each
\* matched amount left out is no greater than any amount kept. No token fails
\* to parse, so none is skipped and nothing is raised.
C9_LargestDistinctDescending ==
    /\ \A i, j \in 1 .. Len(vals) : i < j => RLt(vals[j], vals[i])
    /\ Len(vals) <= 10
    /\ Detected \subseteq Matched
    /\ \A m \in Matched \ Detected :
          Len(vals) = 10 /\ \A v \in Detected : RLe(m, v)
    /\ \A i \in 1 .. Len(amounts) : float_parses(replace_commas(amounts[i]))
    /\ raised = "none"

C9_Witness ==
    /\ Cardinality(Matched) = 12
    /\ Len(amounts) = 13
    /\ Len(vals) = 10
    /\ vals[1] = FromInt(12)
    /\ vals[10] = FromInt(3)

\* C10: pressing Apply leaves the stored lodging nightly rate as it was when
\* the lodging pick is None or 0 and the stored rental daily rate as it was
\* when the Avis pick is None or 0, always stores the picked one-time lodging
\* fees and ferry total (0.0 when those pickers were left alone), and changes
\* no other sidebar value.
C10_ApplyStoresFeesAndFerry ==
    [][applied' =>
          /\ sidebar'.lodging_fees_total = picks.lodge_fees
          /\ sidebar'.ferry_total = picks.ferry
          /\ picks.lodging \in {None, Zero} =>
                sidebar'.lodging_nightly = sidebar.lodging_nightly
          /\ picks.avis_daily \in {None, Zero} =>
                sidebar'.rental_daily = sidebar.rental_daily
          /\ \A i \in 1 .. Len(Params) :
                Params[i] \notin {"lodging_nightly", "lodging_fees_total",
                                  "rental_daily", "ferry_total"}
                   => sidebar'[Params[i]] = sidebar[Params[i]]]_vars
====
